---- MODULE Spec2Model ----
(***************************************************************************)
(* A model of the blinder reverse-search monitor: the query decomposer,    *)
(* the term-filtered presearcher with its TF-IDF scorer, and the monitor   *)
(* with its two-phase match pipeline.                                      *)
(*                                                                         *)
(* Text values are represented by the token stream their tokenizer yields  *)
(* (a sequence of token strings); a u64 value by a one-element sequence.   *)
(***************************************************************************)
EXTENDS Integers, Sequences, FiniteSets, TLC

(***************************************************************************)
(* Schema: the user's document schema (an indexed text field, a u64       *)
(* field, a text field that is only stored, a text field whose tokenizer   *)
(* is not registered, a JSON field) extended with the two reserved fields  *)
(* of the query index.                                                     *)
(***************************************************************************)
MONITOR_QUERY_ID_FIELD_NAME == "__monitor_query_id__"

ANYTERM_FIELD == "__anytermfield__"

BODY == "body"

NUM == "num"

TITLE == "title"

TAGS == "tags"

ATTRS == "attrs"

FieldType(f) ==
    CASE f \in {BODY, TITLE, TAGS} -> "Str"
      [] f = ATTRS -> "JsonObject"
      [] f = ANYTERM_FIELD -> "Bool"
      [] OTHER -> "U64"

\* get_indexing_options that finds every field indexed with the default
\* tokenizer.
get_indexing_options_default(f) == "default"

\* get_indexing_options / get_text_indexing_options of a text or JSON
\* field: the name of its tokenizer, "none" when the field is not indexed.
get_indexing_options(f) ==
    CASE f \in {BODY, ATTRS} -> "default"
      [] f = TAGS -> "custom"
      [] OTHER -> "none"

\* The names tokenizer_manager.get answers.
tokenizers == {"default", "raw", "en_stem", "whitespace"}

Term(f, v) == [field |-> f, value |-> v]

TermA == Term(BODY, "a")

TermB == Term(BODY, "b")

TermN == Term(NUM, "5")

(***************************************************************************)
(* Query trees.  Occur labels and the node kinds the decomposer knows,     *)
(* plus two leaves it treats as indivisible.                               *)
(***************************************************************************)
Should == "Should"

Must == "Must"

MustNot == "MustNot"

Occurs == {Should, Must, MustNot}

TermQuery(t) == [kind |-> "Term", term |-> t]

AllQuery == [kind |-> "All"]

BooleanQuery(cl) == [kind |-> "Boolean", clauses |-> cl]

BoostQuery(q, f) == [kind |-> "Boost", query |-> q, boost |-> f]

DisjunctionMaxQuery(ds) == [kind |-> "DisjunctionMax", disjuncts |-> ds]

Clause(o, q) == [occur |-> o, query |-> q]

(***************************************************************************)
(* Documents: a sequence of (field, value) entries, as                     *)
(* iter_fields_and_values yields them.                                     *)
(***************************************************************************)
StrValue(f, toks) == [field |-> f, type |-> "Str", toks |-> toks]

U64Value(f, v) == [field |-> f, type |-> "U64", toks |-> <<v>>]

ObjectValue(f) == [field |-> f, type |-> "Object", toks |-> <<>>]

SeqRange(s) == {s[i] : i \in DOMAIN s}

\* The terms the ephemeral document index holds for document d.
IndexedTerms(d) ==
    UNION {IF FieldType(d[i].field) = d[i].type
           THEN {Term(d[i].field, v) : v \in SeqRange(d[i].toks)}
           ELSE {} : i \in DOMAIN d}

(***************************************************************************)
(* Whether query q matches a one-document index holding d (the boolean     *)
(* Phase-2 collector's answer).                                            *)
(***************************************************************************)
RECURSIVE Matches(_, _)
Matches(q, d) ==
    CASE q.kind = "Term" -> q.term \in IndexedTerms(d)
      [] q.kind = "All" -> TRUE
      [] q.kind = "Boost" -> Matches(q.query, d)
      [] q.kind = "DisjunctionMax" ->
            \E i \in DOMAIN q.disjuncts : Matches(q.disjuncts[i], d)
      [] q.kind = "Boolean" ->
            LET cl == q.clauses
                musts == {i \in DOMAIN cl : cl[i].occur = Must}
                shoulds == {i \in DOMAIN cl : cl[i].occur = Should}
                nots == {i \in DOMAIN cl : cl[i].occur = MustNot}
            IN  /\ \A i \in nots : ~Matches(cl[i].query, d)
                /\ IF musts # {}
                   THEN \A i \in musts : Matches(cl[i].query, d)
                   ELSE \E i \in shoulds : Matches(cl[i].query, d)

(***************************************************************************)
(* List: a view of a backing vector from a saved offset on.                *)
(***************************************************************************)
\* saved that views the backing vector from its start.
saved_from_start(items) == 0

\* List::saved: the offset of a view that begins where the vector ends.
saved(items) == Len(items)

len(items, offset) == Len(items) - offset

is_empty(items, offset) == len(items, offset) = 0

\* push at the front of the backing vector.
push_front(items, item) == <<item>> \o items

\* push that appends the item twice.
push_twice(items, item) == Append(Append(items, item), item)

push(items, item) == Append(items, item)

\* An iterator over the whole backing vector, not the view.
iter_mut_whole(items, offset) == 1..Len(items)

\* `for x in &mut list`: the positions of the backing vector the view's
\* iterator visits.
iter_mut(items, offset) == (offset + 1)..Len(items)

\* `for x in &list`: the elements the view's iterator yields.
iter(items, offset) == SubSeq(items, offset + 1, Len(items))

\* list[i], i counted from 0 within the view.
list_index(items, offset, i) == items[offset + i + 1]

\* Extend::extend
extend(items, more) == items \o more

\* The function given to map_in_place.
map_f(item) == (item + 1) % 3

\* map_in_place: f applied to the elements from the offset on.
map_in_place(items, offset) ==
    [i \in 1..Len(items) |-> IF i - 1 < offset THEN items[i] ELSE map_f(items[i])]

Included == "Included"

Excluded == "Excluded"

Unbounded == "Unbounded"

Bound(kind, n) == [kind |-> kind, n |-> n]

\* The range drain hands to Vec::drain: the positions of the backing
\* vector, counted from 0, from start up to and not including end.
drain_range(items, offset, range) ==
    [start |-> CASE range.start.kind = Included -> offset + range.start.n
                 [] range.start.kind = Excluded -> offset + range.start.n + 1
                 [] OTHER -> offset,
     end |-> CASE range.end.kind = Included -> offset + range.end.n + 1
               [] range.end.kind = Excluded -> offset + range.end.n
               [] OTHER -> Len(items)]

\* Vec::drain panics when the range does not lie in the vector.
drain_panics(items, offset, range) ==
    LET r == drain_range(items, offset, range)
    IN  r.start > r.end \/ r.end > Len(items)

\* drain that takes the range of the view for a range of the vector.
drain_from_start(items, offset, range) ==
    LET r == drain_range(items, 0, range)
    IN  SubSeq(items, 1, r.start) \o SubSeq(items, r.end + 1, Len(items))

\* drain: the backing vector without the drained range.
drain(items, offset, range) ==
    LET r == drain_range(items, offset, range)
    IN  SubSeq(items, 1, r.start) \o SubSeq(items, r.end + 1, Len(items))

\* What the iterator drain returns yields.
drained(items, offset, range) ==
    LET r == drain_range(items, offset, range)
    IN  SubSeq(items, r.start + 1, r.end)

(***************************************************************************)
(* QueryDecomposer.  Every operator takes the backing vector and returns   *)
(* it as the call leaves it.                                               *)
(***************************************************************************)
\* mandatory_clauses that takes the MustNot children for mandatory too.
mandatory_clauses_with_exclusions(query) ==
    SelectSeq(query.clauses, LAMBDA c : c.occur \in {Must, MustNot})

mandatory_clauses(query) ==
    SelectSeq(query.clauses, LAMBDA c : c.occur = Must)

exclusion_clauses(query) ==
    SelectSeq(query.clauses, LAMBDA c : c.occur = MustNot)

with_exclusions(subquery, exclusions) ==
    BooleanQuery(<<Clause(Must, subquery)>> \o
                 [i \in 1..Len(exclusions) |-> Clause(MustNot, exclusions[i].query)])

RECURSIVE decompose(_, _)
RECURSIVE decompose_should(_, _, _)
RECURSIVE decompose_disjunction_max(_, _, _)

\* The loop over the clauses: a Should child is decomposed as it is met.
decompose_should(items, clauses, i) ==
    IF i > Len(clauses) THEN items
    ELSE decompose_should(
            IF clauses[i].occur = Should
            THEN decompose(items, clauses[i].query)
            ELSE items,
            clauses, i + 1)

decompose_boolean(items, offset, query) ==
    LET looped == decompose_should(items, query.clauses, 1)
        mandatory == mandatory_clauses(query)
        exclusions == exclusion_clauses(query)
    IN  IF \/ Len(mandatory) > 1
           \/ (Len(mandatory) = 1 /\ ~is_empty(looped, offset))
        THEN push(looped, query)
        ELSE LET recursed == IF Len(mandatory) = 1
                             THEN decompose(looped, mandatory[1].query)
                             ELSE looped
             IN  IF exclusions = <<>>
                 THEN recursed
                 ELSE [i \in 1..Len(recursed) |->
                          IF i \in iter_mut(recursed, offset)
                          THEN with_exclusions(recursed[i], exclusions)
                          ELSE recursed[i]]

\* decompose_boost without the test of the factor.
decompose_boost_wrapping(items, offset, query) ==
    LET recursed == decompose(items, query.query)
    IN  [i \in 1..Len(recursed) |->
           IF i \in iter_mut(recursed, offset)
           THEN BoostQuery(recursed[i], query.boost)
           ELSE recursed[i]]

\* decompose_boost that recurses and wraps nothing.
decompose_boost_transparent(items, offset, query) == decompose(items, query.query)

decompose_boost(items, offset, query) ==
    IF query.boost = 1
    THEN decompose(items, query.query)
    ELSE LET recursed == decompose(items, query.query)
         IN  [i \in 1..Len(recursed) |->
                IF i \in iter_mut(recursed, offset)
                THEN BoostQuery(recursed[i], query.boost)
                ELSE recursed[i]]

\* decompose_disjunction_max that recurses into the last disjunct alone.
decompose_disjunction_max_last(items, disjuncts, i) ==
    IF disjuncts = <<>> THEN items
    ELSE decompose(items, disjuncts[Len(disjuncts)])

decompose_disjunction_max(items, disjuncts, i) ==
    IF i > Len(disjuncts) THEN items
    ELSE decompose_disjunction_max(decompose(items, disjuncts[i]), disjuncts, i + 1)

decompose(items, query) ==
    LET offset == saved(items)
    IN  CASE query.kind = "Boolean" -> decompose_boolean(items, offset, query)
          [] query.kind = "Boost" -> decompose_boost(items, offset, query)
          [] query.kind = "DisjunctionMax" ->
                decompose_disjunction_max(items, query.disjuncts, 1)
          [] OTHER -> push(items, query)

(***************************************************************************)
(* QueryDocumentTree, the extraction-side tree a query converts to.        *)
(***************************************************************************)
TreeTerm(t) == [kind |-> "Term", term |-> t]

AnyTerm == [kind |-> "AnyTerm"]

Conjunction(trees) == [kind |-> "Conjunction", trees |-> trees]

Disjunction(trees) == [kind |-> "Disjunction", trees |-> trees]

\* Query::to_ast of the index library: the necessary-term tree of a query.
RECURSIVE to_ast(_)
to_ast(q) ==
    CASE q.kind = "Term" -> TreeTerm(q.term)
      [] q.kind = "Boost" -> to_ast(q.query)
      [] q.kind = "DisjunctionMax" ->
            Disjunction([i \in 1..Len(q.disjuncts) |-> to_ast(q.disjuncts[i])])
      [] q.kind = "Boolean" ->
            LET musts == mandatory_clauses(q)
                shoulds == SelectSeq(q.clauses, LAMBDA c : c.occur = Should)
            IN  IF musts # <<>>
                THEN Conjunction([i \in 1..Len(musts) |-> to_ast(musts[i].query)])
                ELSE Disjunction([i \in 1..Len(shoulds) |-> to_ast(shoulds[i].query)])
      [] OTHER -> AnyTerm

(***************************************************************************)
(* TfIdfScorer.  A score s is kept as the fraction whose natural logarithm *)
(* it is: ln(n / d).  0.0 is 1/1, 1.0 is e/1, -1.0 is 1/e, and             *)
(* idf(df, N) = ln(1 + (N - df + 0.5) / (df + 0.5)) = ln((2N+2) / (2df+1)).*)
(***************************************************************************)
Score(n, d) == [n |-> n, d |-> d]

Score0 == Score(1, 1)

Score1 == Score(2718, 1000)

ScoreMinus1 == Score(1000, 2718)

ScoreLess(x, y) == x.n * y.d < y.n * x.d

idf(doc_freq, doc_count) == Score(2 * doc_count + 2, 2 * doc_freq + 1)

\* assert!(doc_count >= doc_freq)
idf_asserts(doc_freq, doc_count) == doc_count >= doc_freq

StatTerms == {TermA, TermB}

doc_freq(scorer, term) ==
    IF term \in DOMAIN scorer.term_frequencies
    THEN scorer.term_frequencies[term]
    ELSE 0

total_num_docs(scorer) == scorer.document_count

\* add_document_count that adds two.
add_document_count_twice(scorer) ==
    [scorer EXCEPT !.document_count = @ + 2]

add_document_count(scorer) ==
    [scorer EXCEPT !.document_count = @ + 1]

\* add_term whose occupied arm stores the frequency less one.
add_term_counting_down(scorer, term) ==
    [scorer EXCEPT !.token_count = @ + 1,
                   !.term_frequencies =
                       IF term \in DOMAIN @
                       THEN [@ EXCEPT ![term] = @ - 1]
                       ELSE [t \in DOMAIN @ \cup {term} |->
                               IF t = term THEN 1 ELSE @[t]]]

\* self.token_count.fetch_add(1, Ordering::Relaxed)
token_count_fetch_add(scorer) ==
    [scorer EXCEPT !.token_count = @ + 1]

\* The entry of the map written with 1 whether it is occupied or vacant.
term_frequencies_entry_insert_one(scorer, term) ==
    [scorer EXCEPT !.term_frequencies =
                       [t \in DOMAIN @ \cup {term} |->
                           IF t = term THEN 1 ELSE @[t]]]

\* match self.term_frequencies.entry(term): the entry holds the lock of
\* its shard from the lookup to the insert.
term_frequencies_entry(scorer, term) ==
    [scorer EXCEPT !.term_frequencies =
                       IF term \in DOMAIN @
                       THEN [@ EXCEPT ![term] = @ + 1]
                       ELSE [t \in DOMAIN @ \cup {term} |->
                               IF t = term THEN 1 ELSE @[t]]]

add_term(scorer, term) ==
    term_frequencies_entry(token_count_fetch_add(scorer), term)

RECURSIVE score(_, _)
RECURSIVE fold_max(_, _, _, _)
RECURSIVE fold_min(_, _, _, _)

\* trees.iter().fold(0_f32, |max_score, tree| ...)
fold_max(scorer, trees, i, max_score) ==
    IF i > Len(trees) THEN max_score
    ELSE LET tree_score == score(scorer, trees[i])
         IN  fold_max(scorer, trees, i + 1,
                      IF ScoreLess(max_score, tree_score)
                      THEN tree_score ELSE max_score)

\* trees.iter().fold(1_f32, |min_score, tree| ...)
fold_min(scorer, trees, i, min_score) ==
    IF i > Len(trees) THEN min_score
    ELSE LET tree_score == score(scorer, trees[i])
         IN  fold_min(scorer, trees, i + 1,
                      IF ScoreLess(tree_score, min_score)
                      THEN tree_score ELSE min_score)

score(scorer, tree) ==
    CASE tree.kind = "Conjunction" -> fold_max(scorer, tree.trees, 1, Score0)
      [] tree.kind = "Disjunction" -> fold_min(scorer, tree.trees, 1, Score1)
      [] tree.kind = "Term" ->
            idf(doc_freq(scorer, tree.term), total_num_docs(scorer))
      [] OTHER -> ScoreMinus1

\* Whether scoring the tree trips the assertion of idf.
RECURSIVE score_panics(_, _)
score_panics(scorer, tree) ==
    CASE tree.kind \in {"Conjunction", "Disjunction"} ->
            \E i \in DOMAIN tree.trees : score_panics(scorer, tree.trees[i])
      [] tree.kind = "Term" ->
            ~idf_asserts(doc_freq(scorer, tree.term), total_num_docs(scorer))
      [] OTHER -> FALSE

(***************************************************************************)
(* TermFilteredPresearcher.                                                *)
(***************************************************************************)
\* first() without the sort: the first child.
tree_in_first_place(scorer, trees) == 1

\* An unstable sort, then first(): the last child that no other child
\* outscores.
tree_with_highest_score_last(scorer, trees) ==
    LET best == {i \in DOMAIN trees :
                   \A j \in DOMAIN trees :
                      ~ScoreLess(score(scorer, trees[i]), score(scorer, trees[j]))}
    IN  CHOOSE i \in best : \A j \in best : i >= j

\* sort_by descending score (stable), then first(): the first child that no
\* other child outscores.
tree_with_highest_score(scorer, trees) ==
    LET best == {i \in DOMAIN trees :
                   \A j \in DOMAIN trees :
                      ~ScoreLess(score(scorer, trees[i]), score(scorer, trees[j]))}
    IN  CHOOSE i \in best : \A j \in best : i <= j

RECURSIVE to_field_terms(_, _, _)
RECURSIVE to_field_terms_each(_, _, _, _)

\* The loop over the children of a Disjunction, left after its first turn.
to_field_terms_once(scorer, trees, i, field_terms) ==
    IF i > Len(trees) THEN field_terms
    ELSE to_field_terms(scorer, trees[i], field_terms)

to_field_terms_each(scorer, trees, i, field_terms) ==
    IF i > Len(trees) THEN field_terms
    ELSE to_field_terms_each(scorer, trees, i + 1,
                             to_field_terms(scorer, trees[i], field_terms))

\* field_terms is kept as one set of terms; a field's entry is the terms of
\* that field in it.
to_field_terms(scorer, tree, field_terms) ==
    CASE tree.kind = "Conjunction" ->
            IF tree.trees = <<>> THEN field_terms
            ELSE to_field_terms(scorer,
                                tree.trees[tree_with_highest_score(scorer, tree.trees)],
                                field_terms)
      [] tree.kind = "Disjunction" ->
            to_field_terms_each(scorer, tree.trees, 1, field_terms)
      [] tree.kind = "Term" -> field_terms \cup {tree.term}
      [] OTHER -> field_terms \cup {Term(ANYTERM_FIELD, "true")}

\* Whether to_field_terms trips the assertion of idf on its way.
RECURSIVE to_field_terms_panics(_, _)
to_field_terms_panics(scorer, tree) ==
    CASE tree.kind = "Conjunction" ->
            \/ \E i \in DOMAIN tree.trees : score_panics(scorer, tree.trees[i])
            \/ /\ tree.trees # <<>>
               /\ to_field_terms_panics(
                      scorer, tree.trees[tree_with_highest_score(scorer, tree.trees)])
      [] tree.kind = "Disjunction" ->
            \E i \in DOMAIN tree.trees : to_field_terms_panics(scorer, tree.trees[i])
      [] OTHER -> FALSE

\* The synthetic document of a sub-query: the terms its text fields index
\* (the space-joined blob, tokenized again by the index) and the any-term
\* flag.  Terms of fields of any other type are skipped.
convert_query_to_document(scorer, query) ==
    LET field_terms == to_field_terms(scorer, to_ast(query), {})
    IN  [terms |-> {t \in field_terms : FieldType(t.field) = "Str"},
         anyterm |-> \E t \in field_terms : t.field = ANYTERM_FIELD]

\* The loop over the document's (field, value) entries after
\* add_document_count.  err stands for InvalidArgument: a text or JSON field
\* without indexing options, with a tokenizer the manager does not know, or
\* holding a non-string value.
RECURSIVE convert_fields(_, _, _, _)
convert_fields(scorer, document, i, terms) ==
    IF i > Len(document)
    THEN [err |-> FALSE, terms |-> terms, scorer |-> scorer]
    ELSE IF FieldType(document[i].field) \notin {"Str", "JsonObject"}
    THEN convert_fields(scorer, document, i + 1, terms)
    ELSE IF get_indexing_options(document[i].field) = "none"
    THEN [err |-> TRUE, terms |-> terms, scorer |-> scorer]
    ELSE IF get_indexing_options(document[i].field) \notin tokenizers
    THEN [err |-> TRUE, terms |-> terms, scorer |-> scorer]
    ELSE IF document[i].type # "Str"
    THEN [err |-> TRUE, terms |-> terms, scorer |-> scorer]
    ELSE LET toks == document[i].toks
             RECURSIVE process(_, _, _)
             process(sc, ts, k) ==
                 IF k > Len(toks) THEN [scorer |-> sc, terms |-> ts]
                 ELSE process(add_term(sc, Term(document[i].field, toks[k])),
                              Append(ts, Term(document[i].field, toks[k])), k + 1)
             done == process(scorer, terms, 1)
         IN  convert_fields(done.scorer, document, i + 1, done.terms)

convert_document_to_query(scorer, document) ==
    convert_fields(add_document_count(scorer), document, 1, <<>>)

\* search_hit of a candidate-selection query without the any-term clause.
search_hit_terms_only(terms, subquery_document) ==
    \E t \in SeqRange(terms) : t \in subquery_document.terms

\* search_hit of a candidate-selection query that is empty for a document
\* without tokens.
search_hit_if_tokens(terms, subquery_document) ==
    /\ terms # <<>>
    /\ \/ \E t \in SeqRange(terms) : t \in subquery_document.terms
       \/ subquery_document.anyterm

\* The candidate-selection query (TermSet of the document's terms OR the
\* any-term flag) run against one synthetic document.
search_hit(terms, subquery_document) ==
    \/ \E t \in SeqRange(terms) : t \in subquery_document.terms
    \/ subquery_document.anyterm

(***************************************************************************)
(* Monitor and MonitorMatcher: the pure parts of the two operations.       *)
(***************************************************************************)
\* subquery_documents with a loop that starts one sub-query late.
subquery_documents_skip_first(scorer, all_subs, id) ==
    [i \in 1..(Len(all_subs) - 1) |->
        [qid |-> id,
         terms |-> convert_query_to_document(scorer, all_subs[i + 1]).terms,
         anyterm |-> convert_query_to_document(scorer, all_subs[i + 1]).anyterm]]

\* The synthetic documents register_query hands to the index writer, one per
\* sub-query, each stamped with the id.
subquery_documents(scorer, all_subs, id) ==
    [i \in 1..Len(all_subs) |->
        [qid |-> id,
         terms |-> convert_query_to_document(scorer, all_subs[i]).terms,
         anyterm |-> convert_query_to_document(scorer, all_subs[i]).anyterm]]

\* Whether converting some sub-query trips the assertion of idf.
register_panics(scorer, all_subs) ==
    \E i \in DOMAIN all_subs : to_field_terms_panics(scorer, to_ast(all_subs[i]))

\* An insert into a store emptied first.
insert_alone(store, id, query) == [i \in {id} |-> query]

\* An insert that keeps the query already stored under the id.
insert_if_absent(store, id, query) ==
    [i \in DOMAIN store \cup {id} |-> IF i \in DOMAIN store THEN store[i] ELSE query]

\* DashMap::insert
insert(store, id, query) ==
    [i \in DOMAIN store \cup {id} |-> IF i = id THEN query ELSE store[i]]

\* register_steps with the commit moved before the insert.
register_steps_commit_first == <<"commit", "insert">>

\* The order of the statements of register_query after the loop that adds
\* the synthetic documents.
register_steps == <<"insert", "commit">>

\* reader that keeps the snapshot taken when the matcher was built.
reader_cached(index) == 0

\* query_index.reader(): a snapshot of what is committed, kept as the number
\* of committed documents (the index only grows).
reader(index) == Len(index)

\* PresearchQueryMatchCollector: the ids of the hit synthetic documents of
\* the snapshot that the store knows.
merge_fruits(store, index, snapshot, terms) ==
    {index[i].qid : i \in {j \in 1..snapshot :
                             /\ search_hit(terms, index[j])
                             /\ index[j].qid \in DOMAIN store}}

\* query_matched that takes every candidate for a match.
query_matched_unchecked(query, document_index) == TRUE

\* QueryMatchCollector over the ephemeral index.
query_matched(query, document_index) ==
    \E i \in DOMAIN document_index : Matches(query, document_index[i])

\* The loop of Phase 2 over the candidates.
actual_query_matches(store, candidates, document_index) ==
    {id \in candidates :
        id \in DOMAIN store /\ query_matched(store[id], document_index)}

\* delete_all_documents that leaves the ephemeral index as it is.
delete_all_documents_kept(document_index) == document_index

\* document_index_writer.delete_all_documents()
delete_all_documents(document_index) == <<>>

\* document_index_writer.add_document(document), committed next.
add_document(document_index, document) == Append(document_index, document)

\* presearcher_metrics.prospective_queries = presearcher_query_matches.len()
prospective_queries(candidates) == Cardinality(candidates)

\* actual_matches taken from the candidates.
actual_matches_of_candidates(candidates, matches) == Cardinality(candidates)

\* presearcher_metrics.actual_matches = actual_query_matches.len()
actual_matches(candidates, matches) == Cardinality(matches)

(***************************************************************************)
(* Bounded inputs.                                                         *)
(***************************************************************************)
MaxClauses == 2

MaxRegister == 2

MaxMatch == 2

MaxDocs == 2

LeafQueries == {TermQuery(TermA), TermQuery(TermB), AllQuery}

BoostFactors == {1, 2}

ClausesOver(S) ==
    UNION {[1..n -> {Clause(o, q) : o \in Occurs, q \in S}] : n \in 0..MaxClauses}

FlatQueries ==
    LeafQueries
    \cup {BooleanQuery(cl) : cl \in ClausesOver(LeafQueries)}
    \cup {BoostQuery(q, f) : q \in LeafQueries, f \in BoostFactors}
    \cup {DisjunctionMaxQuery(ds) :
            ds \in UNION {[1..n -> LeafQueries] : n \in 0..MaxClauses}}

Documents ==
    {<<>>,
     <<StrValue(BODY, <<"a">>)>>,
     <<StrValue(BODY, <<"b">>)>>,
     <<StrValue(BODY, <<"a", "b">>)>>}

\* The children of the nested queries: leaves and one query per path of the
\* decomposer.
InnerQueries ==
    LeafQueries
    \cup {BooleanQuery(<<Clause(MustNot, TermQuery(TermA))>>),
          BooleanQuery(<<Clause(Should, TermQuery(TermA)),
                         Clause(Should, TermQuery(TermB))>>),
          BooleanQuery(<<Clause(Must, TermQuery(TermA)),
                         Clause(MustNot, TermQuery(TermB))>>),
          BoostQuery(TermQuery(TermA), 2),
          DisjunctionMaxQuery(<<TermQuery(TermA), TermQuery(TermB)>>)}

\* Queries one level deeper than FlatQueries, with one clause more.
NestedQueries ==
    LeafQueries
    \cup {BooleanQuery(cl) :
            cl \in UNION {[1..n -> {Clause(o, q) : o \in Occurs, q \in InnerQueries}] :
                            n \in 0..(MaxClauses + 1)}}
    \cup {BoostQuery(q, f) : q \in InnerQueries, f \in BoostFactors}
    \cup {DisjunctionMaxQuery(ds) :
            ds \in UNION {[1..n -> InnerQueries] : n \in 0..MaxClauses}}

\* What the backing vector holds when decompose is called: nothing, or what
\* an enclosing scope has appended.
BackingVectors == {<<>>, <<BoostQuery(TermQuery(TermB), 2)>>}

\* The children of the trees given to the presearcher.
InnerTrees ==
    {TreeTerm(TermA), TreeTerm(TermB), AnyTerm,
     Conjunction(<<>>), Disjunction(<<>>),
     Conjunction(<<AnyTerm>>), Disjunction(<<AnyTerm>>),
     Conjunction(<<TreeTerm(TermA), TreeTerm(TermB)>>),
     Disjunction(<<TreeTerm(TermA), TreeTerm(TermB)>>)}

Trees ==
    {TreeTerm(TermA), TreeTerm(TermB), AnyTerm}
    \cup {Conjunction(ts) : ts \in UNION {[1..n -> InnerTrees] : n \in 0..MaxClauses}}
    \cup {Disjunction(ts) : ts \in UNION {[1..n -> InnerTrees] : n \in 0..MaxClauses}}

\* The states of the statistics that conversions of documents lead to: a
\* term is counted once per token, after its document was counted.
ScorerStates ==
    {[token_count |-> fa + fb,
      document_count |-> n,
      term_frequencies |->
          [t \in {u \in StatTerms : (IF u = TermA THEN fa ELSE fb) > 0} |->
              IF t = TermA THEN fa ELSE fb]] :
        n \in 0..MaxDocs,
        fa \in 0..(MaxDocs + 1),
        fb \in 0..(MaxDocs + 1)}

\* What field_terms holds when to_field_terms is called.
FieldTermsBefore == {{}, {TermB}}

QA == TermQuery(TermA)

QB == TermQuery(TermB)

QN == TermQuery(TermN)

\* The queries the monitor is given: one per path of the decomposer and of
\* term selection.
MonitorQueries ==
    {QA, QN, AllQuery,
     BooleanQuery(<<Clause(Should, QA), Clause(Should, QB)>>),
     BooleanQuery(<<Clause(Must, QA), Clause(Must, QB)>>),
     BooleanQuery(<<Clause(Must, QA), Clause(MustNot, QB)>>),
     BooleanQuery(<<Clause(Should, QA), Clause(Must, QB)>>),
     BooleanQuery(<<Clause(MustNot, QA)>>),
     BooleanQuery(<<Clause(Must, DisjunctionMaxQuery(<<QN, QA>>)),
                    Clause(Must, QB)>>),
     BoostQuery(QB, 2)}

\* The documents the monitor is given; the last four cannot be converted:
\* a number in the text field, a text field that is not indexed, a text
\* field with an unregistered tokenizer, an object in the JSON field.
MonitorDocuments ==
    {<<>>,
     <<StrValue(BODY, <<"a">>)>>,
     <<StrValue(BODY, <<"a", "b">>)>>,
     <<StrValue(BODY, <<"b", "b">>)>>,
     <<StrValue(BODY, <<"b">>), U64Value(NUM, "5")>>,
     <<U64Value(BODY, "5")>>,
     <<StrValue(TITLE, <<"a">>)>>,
     <<StrValue(TAGS, <<"a">>)>>,
     <<ObjectValue(ATTRS)>>}

\* The inputs of the runs with two matcher threads.
FewQueries == {QA, QN, BooleanQuery(<<Clause(Must, QA), Clause(Must, QB)>>)}

FewDocuments ==
    {<<StrValue(BODY, <<"a">>)>>,
     <<StrValue(BODY, <<"a", "b">>)>>,
     <<StrValue(BODY, <<"b">>), U64Value(NUM, "5")>>}

Ids == {0, 1}

\* The threads that hold a MonitorMatcher; OneMatcher is the thread of the
\* runs with a single matcher.
Matchers == {"m1", "m2"}

OneMatcher == {"m1"}

\* The threads that call the scorer at the same time, and the calls they
\* make between them.
Threads == {"t1", "t2"}

MaxCalls == 5

\* The List runs: the longest backing vector, the deepest nesting of
\* views, the elements, the ranges given to drain.
MaxLen == 3

MaxDepth == 3

Elements == {0, 1}

Bounds ==
    {Bound(Unbounded, 0)}
    \cup {Bound(kind, n) : kind \in {Included, Excluded}, n \in 0..1}

Ranges == {[start |-> s, end |-> e] : s \in Bounds, e \in Bounds}

(***************************************************************************)
(* State.                                                                  *)
(***************************************************************************)
VARIABLES
    query_store,     \* Monitor.query_store: id -> query
    query_index,     \* the committed synthetic documents of Monitor.query_index
    scorer,          \* TfIdfScorer: token_count, document_count, term_frequencies
    reg,             \* the register_query call in flight
    matcher,         \* each thread's MonitorMatcher and its match_document call
    nregister,       \* register_query calls made
    nmatch,          \* match_document calls made
    d_query, d_document, all_subqueries, d_done,  \* a decomposer run
    p_tree,          \* the QueryDocumentTree given to the presearcher
    p_field_terms,   \* the field_terms map given to to_field_terms
    p_terms,         \* the field_terms map as to_field_terms leaves it
    p_score,         \* what TfIdfScorer::score returned
    p_pc,            \* "idle", "ready", "scored", "selected" or "panicked"
    s_pc,            \* each scorer thread's position in add_term
    s_calls,         \* the calls made on the scorer by the scorer threads
    l_items,         \* the backing vector of a List
    l_offsets,       \* the offsets of the nested views of it, innermost last
    l_last           \* the last operation on the innermost view and its result

mvars == <<query_store, query_index, scorer, reg, matcher, nregister, nmatch>>

dvars == <<d_query, d_document, all_subqueries, d_done>>

pvars == <<p_tree, p_field_terms, p_terms, p_score, p_pc>>

svars == <<s_pc, s_calls>>

lvars == <<l_items, l_offsets, l_last>>

ovars == <<svars, lvars>>

vars == <<mvars, dvars, pvars, ovars>>

RegIdle ==
    [step |-> 0, id |-> 0, query |-> AllQuery, documents |-> <<>>,
     again |-> FALSE, outcome |-> "none"]

MatcherIdle ==
    [pc |-> "idle", document |-> <<>>, total_queries |-> 0, snapshot |-> 0,
     candidates |-> {}, matches |-> {}, returned |-> "none",
     document_index |-> <<>>, quiet |-> FALSE, committed_before |-> 0,
     overlapped |-> FALSE]

MonitorInit ==
    /\ query_store = <<>>
    /\ query_index = <<>>
    /\ scorer = [token_count |-> 0, document_count |-> 0,
                 term_frequencies |-> <<>>]
    /\ reg = RegIdle
    /\ matcher = [m \in Matchers |-> MatcherIdle]
    /\ nregister = 0
    /\ nmatch = 0

DecomposeIdle ==
    /\ d_query = AllQuery
    /\ d_document = <<>>
    /\ all_subqueries = <<>>
    /\ d_done = TRUE

PresearchIdle ==
    /\ p_tree = AnyTerm
    /\ p_field_terms = {}
    /\ p_terms = {}
    /\ p_score = Score0
    /\ p_pc = "idle"

ScorerThreadsIdle ==
    /\ s_pc = [th \in Threads |-> [at |-> "idle", term |-> TermA]]
    /\ s_calls = [documents |-> 0, terms |-> [t \in StatTerms |-> 0]]

\* List::new over an empty vector.
ListIdle ==
    /\ l_items = <<>>
    /\ l_offsets = <<0>>
    /\ l_last = [op |-> "new", result |-> <<>>, panicked |-> FALSE]

OtherIdle == ScorerThreadsIdle /\ ListIdle

Init == MonitorInit /\ DecomposeIdle /\ PresearchIdle /\ OtherIdle

\* A step of register_query ends every match_document call's quiet run.
Disturb(ms) == [m \in Matchers |-> [ms[m] EXCEPT !.quiet = FALSE]]

(***************************************************************************)
(* register_query                                                          *)
(***************************************************************************)
\* Decompose, take the index writer, convert every sub-query and add its
\* synthetic document to the writer.
RegisterBegin(id, query) ==
    LET all_subs == decompose(<<>>, query)
    IN  /\ reg.step = 0
        /\ nregister < MaxRegister
        /\ ~register_panics(scorer, all_subs)
        /\ reg' = [step |-> 1, id |-> id, query |-> query,
                   documents |-> subquery_documents(scorer, all_subs, id),
                   again |-> (id \in DOMAIN query_store /\ query_store[id] = query),
                   outcome |-> "none"]
        /\ nregister' = nregister + 1
        /\ matcher' = Disturb(matcher)
        /\ UNCHANGED <<query_store, query_index, scorer, nmatch, dvars, pvars, ovars>>

\* The assertion of idf fails while a sub-query is converted: the call
\* unwinds, the writer is dropped with what was added to it.
RegisterPanic(id, query) ==
    /\ reg.step = 0
    /\ nregister < MaxRegister
    /\ register_panics(scorer, decompose(<<>>, query))
    /\ reg' = [RegIdle EXCEPT !.id = id, !.query = query, !.outcome = "panic"]
    /\ nregister' = nregister + 1
    /\ matcher' = Disturb(matcher)
    /\ UNCHANGED <<query_store, query_index, scorer, nmatch, dvars, pvars, ovars>>

RegisterAdvance ==
    IF reg.step = Len(register_steps)
    THEN [RegIdle EXCEPT !.id = reg.id, !.query = reg.query, !.outcome = "ok"]
    ELSE [reg EXCEPT !.step = @ + 1]

\* self.query_store.insert(monitor_query.id, monitor_query)
RegisterInsert ==
    /\ reg.step > 0
    /\ register_steps[reg.step] = "insert"
    /\ query_store' = insert(query_store, reg.id, reg.query)
    /\ reg' = RegisterAdvance
    /\ matcher' = Disturb(matcher)
    /\ UNCHANGED <<query_index, scorer, nregister, nmatch, dvars, pvars, ovars>>

\* index_writer.commit()
RegisterCommit ==
    /\ reg.step > 0
    /\ register_steps[reg.step] = "commit"
    /\ query_index' = query_index \o reg.documents
    /\ reg' = RegisterAdvance
    /\ matcher' = Disturb(matcher)
    /\ UNCHANGED <<query_store, scorer, nregister, nmatch, dvars, pvars, ovars>>

(***************************************************************************)
(* MonitorMatcher::match_document                                          *)
(***************************************************************************)
\* total_queries: self.monitor.query_store.len()
MatchStart(m, document) ==
    /\ matcher[m].pc = "idle"
    /\ nmatch < MaxMatch
    /\ matcher' = [n \in Matchers |->
           IF n = m
           THEN [MatcherIdle EXCEPT
                    !.pc = "started",
                    !.document = document,
                    !.total_queries = Cardinality(DOMAIN query_store),
                    !.document_index = matcher[m].document_index,
                    !.quiet = (reg.step = 0),
                    !.committed_before = Len(query_index),
                    !.overlapped = \E o \in Matchers : matcher[o].pc # "idle"]
           ELSE IF matcher[n].pc # "idle"
           THEN [matcher[n] EXCEPT !.overlapped = TRUE]
           ELSE matcher[n]]
    /\ nmatch' = nmatch + 1
    /\ UNCHANGED <<query_store, query_index, scorer, reg, nregister, dvars, pvars, ovars>>

\* query_index.reader() and its searcher
MatchOpenReader(m) ==
    /\ matcher[m].pc = "started"
    /\ matcher' = [matcher EXCEPT ![m].pc = "opened",
                                  ![m].snapshot = reader(query_index)]
    /\ UNCHANGED <<query_store, query_index, scorer, reg, nregister, nmatch, dvars, pvars, ovars>>

\* Phase 1: convert_document_to_query, then the search of the snapshot.
MatchPresearch(m) ==
    LET converted == convert_document_to_query(scorer, matcher[m].document)
    IN  /\ matcher[m].pc = "opened"
        /\ scorer' = converted.scorer
        /\ matcher' = [matcher EXCEPT ![m] =
               IF converted.err
               THEN [@ EXCEPT !.pc = "idle", !.returned = "err"]
               ELSE [@ EXCEPT !.pc = "searched",
                              !.candidates =
                                  merge_fruits(query_store, query_index,
                                               matcher[m].snapshot, converted.terms)]]
        /\ UNCHANGED <<query_store, query_index, reg, nregister, nmatch, dvars, pvars, ovars>>

\* Phase 2: the ephemeral index is wiped and given the document, every
\* candidate's stored query is run against it, and the call returns.
MatchEvaluate(m) ==
    LET index == add_document(delete_all_documents(matcher[m].document_index),
                              matcher[m].document)
    IN  /\ matcher[m].pc = "searched"
        /\ matcher' = [matcher EXCEPT ![m] =
               [@ EXCEPT !.pc = "idle",
                         !.returned = "ok",
                         !.document_index = index,
                         !.matches = actual_query_matches(
                                         query_store, matcher[m].candidates, index)]]
        /\ UNCHANGED <<query_store, query_index, scorer, reg, nregister, nmatch, dvars, pvars, ovars>>

Next ==
    \/ \E id \in Ids, query \in MonitorQueries : RegisterBegin(id, query)
    \/ \E id \in Ids, query \in MonitorQueries : RegisterPanic(id, query)
    \/ RegisterInsert
    \/ RegisterCommit
    \/ \E m \in OneMatcher, document \in MonitorDocuments : MatchStart(m, document)
    \/ \E m \in OneMatcher : MatchOpenReader(m)
    \/ \E m \in OneMatcher : MatchPresearch(m)
    \/ \E m \in OneMatcher : MatchEvaluate(m)

\* One registering thread and one matching thread.
Spec == Init /\ [][Next]_vars

MatchersNext ==
    \/ \E id \in Ids, query \in FewQueries : RegisterBegin(id, query)
    \/ RegisterInsert
    \/ RegisterCommit
    \/ \E m \in Matchers, document \in FewDocuments : MatchStart(m, document)
    \/ \E m \in Matchers : MatchOpenReader(m)
    \/ \E m \in Matchers : MatchPresearch(m)
    \/ \E m \in Matchers : MatchEvaluate(m)

\* One registering thread and two matching threads, each with its own
\* matcher.
SpecMatchers == Init /\ [][MatchersNext]_vars

(***************************************************************************)
(* register_query with the index library's calls allowed to fail.          *)
(***************************************************************************)
\* One of the `?` before the insert returns the error: taking the writer,
\* converting a sub-query, add_document.  The writer, if taken, is dropped
\* with what was added to it.
RegisterFails(id, query) ==
    /\ reg.step = 0
    /\ nregister < MaxRegister
    /\ reg' = [RegIdle EXCEPT
                  !.id = id, !.query = query, !.outcome = "err",
                  !.again = (id \in DOMAIN query_store /\ query_store[id] = query)]
    /\ nregister' = nregister + 1
    /\ matcher' = Disturb(matcher)
    /\ UNCHANGED <<query_store, query_index, scorer, nmatch, dvars, pvars, ovars>>

\* index_writer.commit() returns the error: nothing is committed, and the
\* call returns it.
RegisterCommitFails ==
    /\ reg.step > 0
    /\ register_steps[reg.step] = "commit"
    /\ reg' = [RegIdle EXCEPT
                  !.id = reg.id, !.query = reg.query, !.outcome = "err",
                  !.again = reg.again]
    /\ matcher' = Disturb(matcher)
    /\ UNCHANGED <<query_store, query_index, scorer, nregister, nmatch, dvars, pvars, ovars>>

ErrorsNext ==
    \/ \E id \in Ids, query \in FewQueries : RegisterBegin(id, query)
    \/ \E id \in Ids, query \in FewQueries : RegisterFails(id, query)
    \/ RegisterInsert
    \/ RegisterCommit
    \/ RegisterCommitFails
    \/ \E m \in OneMatcher, document \in FewDocuments : MatchStart(m, document)
    \/ \E m \in OneMatcher : MatchOpenReader(m)
    \/ \E m \in OneMatcher : MatchPresearch(m)
    \/ \E m \in OneMatcher : MatchEvaluate(m)

\* One registering thread whose calls may fail and one matching thread.
SpecErrors == Init /\ [][ErrorsNext]_vars

(***************************************************************************)
(* Threads calling add_document_count and add_term on one TfIdfScorer.     *)
(***************************************************************************)
CallsMade ==
    s_calls.documents + s_calls.terms[TermA] + s_calls.terms[TermB]

\* add_document_count: one fetch_add.
AddDocumentCount(th) ==
    /\ s_pc[th].at = "idle"
    /\ CallsMade < MaxCalls
    /\ scorer' = add_document_count(scorer)
    /\ s_calls' = [s_calls EXCEPT !.documents = @ + 1]
    /\ UNCHANGED <<s_pc, query_store, query_index, reg, matcher, nregister,
                   nmatch, dvars, pvars, lvars>>

\* add_term, first statement: the fetch_add on token_count.
AddTermFetchAdd(th, term) ==
    /\ s_pc[th].at = "idle"
    /\ CallsMade < MaxCalls
    /\ scorer' = token_count_fetch_add(scorer)
    /\ s_pc' = [s_pc EXCEPT ![th] = [at |-> "entry", term |-> term]]
    /\ s_calls' = [s_calls EXCEPT !.terms[term] = @ + 1]
    /\ UNCHANGED <<query_store, query_index, reg, matcher, nregister,
                   nmatch, dvars, pvars, lvars>>

\* add_term, second statement: the update of the term's entry.
AddTermEntry(th) ==
    /\ s_pc[th].at = "entry"
    /\ scorer' = term_frequencies_entry(scorer, s_pc[th].term)
    /\ s_pc' = [s_pc EXCEPT ![th] = [at |-> "idle", term |-> TermA]]
    /\ UNCHANGED <<s_calls, query_store, query_index, reg, matcher, nregister,
                   nmatch, dvars, pvars, lvars>>

ScorerNext ==
    \/ \E th \in Threads : AddDocumentCount(th)
    \/ \E th \in Threads, term \in StatTerms : AddTermFetchAdd(th, term)
    \/ \E th \in Threads : AddTermEntry(th)

SpecScorer == Init /\ [][ScorerNext]_vars

(***************************************************************************)
(* A List and the views saved() makes of it.  A view borrows its parent    *)
(* mutably, so the innermost view is the one in use until it is dropped.   *)
(***************************************************************************)
view_offset == l_offsets[Len(l_offsets)]

Did(op, result) == [op |-> op, result |-> result, panicked |-> FALSE]

ListSaved ==
    /\ Len(l_offsets) < MaxDepth
    /\ l_offsets' = Append(l_offsets, saved(l_items))
    /\ l_last' = Did("saved", <<>>)
    /\ UNCHANGED <<l_items, mvars, dvars, pvars, svars>>

\* The innermost view goes out of scope.
ListDrop ==
    /\ Len(l_offsets) > 1
    /\ l_offsets' = SubSeq(l_offsets, 1, Len(l_offsets) - 1)
    /\ l_last' = Did("drop", <<>>)
    /\ UNCHANGED <<l_items, mvars, dvars, pvars, svars>>

ListPush(item) ==
    /\ Len(l_items) < MaxLen
    /\ l_items' = push(l_items, item)
    /\ l_last' = Did("push", <<>>)
    /\ UNCHANGED <<l_offsets, mvars, dvars, pvars, svars>>

ListExtend(more) ==
    /\ Len(l_items) + Len(more) <= MaxLen
    /\ l_items' = extend(l_items, more)
    /\ l_last' = Did("extend", <<>>)
    /\ UNCHANGED <<l_offsets, mvars, dvars, pvars, svars>>

ListMapInPlace ==
    /\ l_items' = map_in_place(l_items, view_offset)
    /\ l_last' = Did("map_in_place", <<>>)
    /\ UNCHANGED <<l_offsets, mvars, dvars, pvars, svars>>

ListDrain(range) ==
    /\ ~drain_panics(l_items, view_offset, range)
    /\ l_items' = drain(l_items, view_offset, range)
    /\ l_last' = Did("drain", drained(l_items, view_offset, range))
    /\ UNCHANGED <<l_offsets, mvars, dvars, pvars, svars>>

ListDrainPanic(range) ==
    /\ drain_panics(l_items, view_offset, range)
    /\ l_last' = [op |-> "drain", result |-> <<>>, panicked |-> TRUE]
    /\ UNCHANGED <<l_items, l_offsets, mvars, dvars, pvars, svars>>

ListIter ==
    /\ l_last' = Did("iter", iter(l_items, view_offset))
    /\ UNCHANGED <<l_items, l_offsets, mvars, dvars, pvars, svars>>

ListIndex(i) ==
    /\ i < len(l_items, view_offset)
    /\ l_last' = Did("index", <<i, list_index(l_items, view_offset, i)>>)
    /\ UNCHANGED <<l_items, l_offsets, mvars, dvars, pvars, svars>>

ListNext ==
    \/ ListSaved
    \/ ListDrop
    \/ \E item \in Elements : ListPush(item)
    \/ \E more \in [1..2 -> Elements] : ListExtend(more)
    \/ ListMapInPlace
    \/ \E range \in Ranges : ListDrain(range)
    \/ \E range \in Ranges : ListDrainPanic(range)
    \/ ListIter
    \/ \E i \in 0..(MaxLen - 1) : ListIndex(i)

SpecList == Init /\ [][ListNext]_vars

(***************************************************************************)
(* A run of the decomposer on its own.                                     *)
(***************************************************************************)
DecomposeInit ==
    /\ MonitorInit
    /\ PresearchIdle
    /\ OtherIdle
    /\ d_query \in FlatQueries
    /\ d_document \in Documents
    /\ all_subqueries = <<>>
    /\ d_done = FALSE

Decompose ==
    /\ ~d_done
    /\ all_subqueries' = decompose(all_subqueries, d_query)
    /\ d_done' = TRUE
    /\ UNCHANGED <<d_query, d_document, mvars, pvars, ovars>>

DecomposeNext == Decompose

SpecDecompose == DecomposeInit /\ [][DecomposeNext]_vars

\* A run of decompose on a nested query, called with the backing vector
\* empty or in use.
DecomposeScopeInit ==
    /\ MonitorInit
    /\ PresearchIdle
    /\ OtherIdle
    /\ d_query \in NestedQueries
    /\ d_document = <<>>
    /\ all_subqueries \in BackingVectors
    /\ d_done = FALSE

SpecDecomposeScope == DecomposeScopeInit /\ [][DecomposeNext]_vars

\* The same runs, with the call that was made running to its return.
SpecDecomposeTotal ==
    DecomposeScopeInit /\ [][DecomposeNext]_vars /\ WF_vars(Decompose)

(***************************************************************************)
(* The scorer and term selection on their own.                             *)
(***************************************************************************)
PresearchInit ==
    /\ query_store = <<>>
    /\ query_index = <<>>
    /\ scorer \in {s \in ScorerStates :
                      s.document_count > 0 \/ s.token_count = 0}
    /\ reg = RegIdle
    /\ matcher = [m \in Matchers |-> MatcherIdle]
    /\ nregister = 0
    /\ nmatch = 0
    /\ DecomposeIdle
    /\ OtherIdle
    /\ p_tree \in Trees
    /\ p_field_terms \in FieldTermsBefore
    /\ p_terms = {}
    /\ p_score = Score0
    /\ p_pc = "ready"

\* self.scorer.score(tree)
ScoreTree ==
    /\ p_pc = "ready"
    /\ ~score_panics(scorer, p_tree)
    /\ p_score' = score(scorer, p_tree)
    /\ p_pc' = "scored"
    /\ UNCHANGED <<p_tree, p_field_terms, p_terms, mvars, dvars, ovars>>

\* self.to_field_terms(tree, &mut field_terms, schema)
SelectTerms ==
    /\ p_pc = "ready"
    /\ ~to_field_terms_panics(scorer, p_tree)
    /\ p_terms' = to_field_terms(scorer, p_tree, p_field_terms)
    /\ p_pc' = "selected"
    /\ UNCHANGED <<p_tree, p_field_terms, p_score, mvars, dvars, ovars>>

\* The assertion of idf fails in either call.
PresearchPanic ==
    /\ p_pc = "ready"
    /\ score_panics(scorer, p_tree) \/ to_field_terms_panics(scorer, p_tree)
    /\ p_pc' = "panicked"
    /\ UNCHANGED <<p_tree, p_field_terms, p_terms, p_score, mvars, dvars, ovars>>

PresearchNext == ScoreTree \/ SelectTerms \/ PresearchPanic

SpecPresearch == PresearchInit /\ [][PresearchNext]_vars

(***************************************************************************)
(* Properties.                                                             *)
(***************************************************************************)
\* A call that returned Ok with no step of register_query since it began,
\* and none in flight when it began.
ReturnedQuiet(m) == matcher[m].returned = "ok" /\ matcher[m].quiet

\* The ids match_document(document) returns in the current state with no
\* other call running.
MatchedIds(store, index, document) ==
    LET converted == convert_document_to_query(scorer, document)
    IN  IF converted.err THEN {}
        ELSE actual_query_matches(
                 store,
                 merge_fruits(store, index, reader(index), converted.terms),
                 <<document>>)

\* C1: no false positives.  Every id a match_document call returns is a key
\* of the query store, and the query stored under it matches the call's
\* document.
C1_NoFalsePositives ==
    \A m \in Matchers :
        ReturnedQuiet(m) =>
            \A id \in matcher[m].matches :
                /\ id \in DOMAIN query_store
                /\ Matches(query_store[id], matcher[m].document)

\* A call returned a match and Phase 2 rejected another of its candidates.
C1_Witness ==
    \E m \in Matchers :
        /\ ReturnedQuiet(m)
        /\ matcher[m].matches # {}
        /\ matcher[m].matches # matcher[m].candidates

\* C2: completeness.  Every registered query that matches the document of a
\* match_document call has its id in the set the call returns.
C2_Completeness ==
    \A m \in Matchers :
        ReturnedQuiet(m) =>
            \A id \in DOMAIN query_store :
                Matches(query_store[id], matcher[m].document)
                    => id \in matcher[m].matches

\* C3: decomposition equivalence.  The query matches the document if and
\* only if one of the sub-queries decompose appended matches it.
C3_DecompositionEquivalence ==
    d_done =>
        (Matches(d_query, d_document)
            <=> \E i \in DOMAIN all_subqueries :
                    Matches(all_subqueries[i], d_document))

\* C4: the metrics of every match_document call that returned satisfy
\* actual_matches <= prospective_queries <= total_queries, whatever
\* register_query did meanwhile.
C4_MetricsOrdered ==
    \A m \in Matchers :
        matcher[m].returned = "ok" =>
            /\ Cardinality(matcher[m].matches) <= Cardinality(matcher[m].candidates)
            /\ Cardinality(matcher[m].candidates) <= matcher[m].total_queries

\* C5: store before commit.  Every id carried by a committed synthetic
\* document has an entry in the query store.
C5_StoreBeforeCommit ==
    \A i \in DOMAIN query_index : query_index[i].qid \in DOMAIN query_store

\* A registration has inserted into the store and not committed yet, while a
\* match_document call holds candidates of an earlier registration.
C5_Witness ==
    /\ reg.step > 0
    /\ register_steps[reg.step] = "commit"
    /\ reg.documents # <<>>
    /\ \E m \in Matchers :
          matcher[m].pc = "searched" /\ matcher[m].candidates # {}

\* C6: visibility.  What was committed when match_document was invoked is in
\* the snapshot Phase 1 searches: the snapshot holds every synthetic
\* document committed before the call, every one of them the document hits
\* yields its id as a candidate, and total_queries counts their ids.
C6_Visibility ==
    \A m \in Matchers :
        LET call == matcher[m]
            before == 1..call.committed_before
            terms == convert_document_to_query(scorer, call.document).terms
        IN  /\ (call.pc \in {"opened", "searched"} \/ call.returned # "none")
                => call.snapshot >= call.committed_before
            /\ (call.pc # "idle" \/ call.returned # "none")
                => call.total_queries
                      >= Cardinality({query_index[i].qid : i \in before})
            /\ (call.pc = "searched" \/ call.returned = "ok")
                => \A i \in before :
                      search_hit(terms, query_index[i])
                          => query_index[i].qid \in call.candidates

\* Phase 1 of a call found candidates among what was committed before it.
C6_Witness ==
    \E m \in Matchers :
        /\ matcher[m].pc = "searched"
        /\ matcher[m].committed_before > 0
        /\ matcher[m].candidates # {}
        /\ matcher[m].total_queries > 0

C8_TermOrAnyTerm ==
    \A i \in DOMAIN query_index :
        query_index[i].anyterm \/ query_index[i].terms # {}

\* C9: idempotent registration.  No step of a register_query call that
\* repeats the (id, query) the store already holds changes the set of ids
\* match_document returns for any document.
C9_IdempotentRegistration ==
    [][reg.again =>
          \A document \in MonitorDocuments :
              MatchedIds(query_store', query_index', document)
                  = MatchedIds(query_store, query_index, document)]_vars

\* C10: isolation of concurrent matches.  A match_document call that ran
\* while another thread's call was running, with no registration in
\* flight, returns exactly the ids whose stored query matches its own
\* document.
C10_ConcurrentMatchesExact ==
    \A m \in Matchers :
        (ReturnedQuiet(m) /\ matcher[m].overlapped) =>
            matcher[m].matches
                = {id \in DOMAIN query_store :
                     Matches(query_store[id], matcher[m].document)}

\* The sub-queries the Should children of a Boolean produce, each child
\* decomposed on its own, in clause order.
RECURSIVE ShouldOutputs(_, _)
ShouldOutputs(clauses, i) ==
    IF i > Len(clauses) THEN <<>>
    ELSE (IF clauses[i].occur = Should
          THEN decompose(<<>>, clauses[i].query) ELSE <<>>)
         \o ShouldOutputs(clauses, i + 1)

MustChildren(q) == SelectSeq(q.clauses, LAMBDA c : c.occur = Must)

MustNotChildren(q) == SelectSeq(q.clauses, LAMBDA c : c.occur = MustNot)

\* A Boolean the decomposer emits whole.
EmittedVerbatim(q) ==
    /\ q.kind = "Boolean"
    /\ \/ Len(MustChildren(q)) > 1
       \/ Len(MustChildren(q)) = 1 /\ ShouldOutputs(q.clauses, 1) # <<>>

\* C12: decompose of a Boolean whose children are all MustNot appends no
\* sub-query: the backing vector is as it was.
C12_MustNotOnlyAppendsNothing ==
    [][(/\ ~d_done
        /\ d_query.kind = "Boolean"
        /\ d_query.clauses # <<>>
        /\ \A i \in DOMAIN d_query.clauses : d_query.clauses[i].occur = MustNot)
       => all_subqueries' = all_subqueries]_vars

\* A Boolean of three MustNot children, one of them a Boolean, was
\* decomposed on a backing vector in use.
C12_Witness ==
    /\ d_done
    /\ d_query.kind = "Boolean"
    /\ Len(d_query.clauses) = 3
    /\ \A i \in DOMAIN d_query.clauses : d_query.clauses[i].occur = MustNot
    /\ \E i \in DOMAIN d_query.clauses : d_query.clauses[i].query.kind = "Boolean"
    /\ all_subqueries \in BackingVectors \ {<<>>}

\* C13: exclusion propagation.  For a Boolean with MustNot children that is
\* not emitted whole, decompose appends exactly the sub-queries of its scope
\* (those of its Should children, or of its single Must child), each as
\* Boolean[Must = sub, MustNot = every exclusion], and nothing else;
\* Boolean[Must a, MustNot b] yields one sub-query equal to itself.
C13_ExclusionPropagation ==
    [][(/\ ~d_done
        /\ d_query.kind = "Boolean"
        /\ MustNotChildren(d_query) # <<>>
        /\ ~EmittedVerbatim(d_query))
       => LET exclusions == MustNotChildren(d_query)
              scope == IF MustChildren(d_query) = <<>>
                       THEN ShouldOutputs(d_query.clauses, 1)
                       ELSE decompose(<<>>, MustChildren(d_query)[1].query)
              wrapped(sub) ==
                  [kind |-> "Boolean",
                   clauses |-> <<[occur |-> Must, query |-> sub]>> \o
                       [j \in 1..Len(exclusions) |->
                           [occur |-> MustNot, query |-> exclusions[j].query]]]
          IN  /\ all_subqueries'
                    = all_subqueries \o [i \in 1..Len(scope) |-> wrapped(scope[i])]
              /\ d_query = BooleanQuery(<<Clause(Must, QA), Clause(MustNot, QB)>>)
                    => all_subqueries' = Append(all_subqueries, d_query)]_vars

\* A Boolean with two exclusions and a Should child that is itself a
\* Boolean of two sub-queries was decomposed on a backing vector in use:
\* the vector holds what it held and the two wrapped sub-queries.
C13_Witness ==
    /\ d_done
    /\ d_query.kind = "Boolean"
    /\ Len(MustNotChildren(d_query)) = 2
    /\ MustChildren(d_query) = <<>>
    /\ \E i \in DOMAIN d_query.clauses :
          /\ d_query.clauses[i].occur = Should
          /\ d_query.clauses[i].query.kind = "Boolean"
    /\ Len(all_subqueries) = 3
    /\ <<all_subqueries[1]>> \in BackingVectors
    /\ all_subqueries[2].kind = "Boolean"
    /\ Len(all_subqueries[2].clauses) = 3

\* C14: for a Boolean with more than one Must child, or with one Must child
\* and sub-queries already produced by its Should children, decompose
\* appends exactly one sub-query, the Boolean itself.
C14_VerbatimExactlyOne ==
    [][(~d_done /\ EmittedVerbatim(d_query))
       => all_subqueries' = Append(all_subqueries, d_query)]_vars

\* C15: decompose(Boost(q, 1.0)) leaves the backing vector as decompose(q)
\* leaves it.
C15_BoostOneIsChild ==
    [][(~d_done /\ d_query.kind = "Boost" /\ d_query.boost = 1)
       => all_subqueries' = decompose(all_subqueries, d_query.query)]_vars

\* A Boost of factor 1.0 around a Boolean of two sub-queries was decomposed
\* on a backing vector in use; the two sub-queries are not Boosts.
C15_Witness ==
    /\ d_done
    /\ d_query.kind = "Boost"
    /\ d_query.boost = 1
    /\ d_query.query.kind = "Boolean"
    /\ Len(all_subqueries) = 3
    /\ all_subqueries[2].kind = "Term"
    /\ all_subqueries[3].kind = "Term"

\* C16: decompose of a query that is not a Boolean, a Boost or a
\* DisjunctionMax appends exactly one element, the query itself.
C16_LeafAppendsItself ==
    [][(~d_done /\ d_query.kind \notin {"Boolean", "Boost", "DisjunctionMax"})
       => all_subqueries' = Append(all_subqueries, d_query)]_vars

\* An opaque leaf was decomposed on a backing vector in use.
C16_Witness ==
    /\ d_done
    /\ d_query = AllQuery
    /\ Len(all_subqueries) = 2
    /\ all_subqueries[2] = AllQuery
    /\ <<all_subqueries[1]>> \in BackingVectors

\* C11 as stated: a match_document call on a document with no field values
\* returns no id and the metrics (N, 0, 0), N the size of the query store.
C11_EmptyDocumentNoCandidates ==
    \A m \in Matchers :
        (ReturnedQuiet(m) /\ matcher[m].document = <<>>) =>
            /\ matcher[m].matches = {}
            /\ matcher[m].candidates = {}
            /\ matcher[m].total_queries = Cardinality(DOMAIN query_store)

\* C11 as amended: a match_document call on a document with no field values
\* has total_queries = N, its candidates are exactly the ids of the
\* synthetic documents that carry the any-term flag, and it returns those
\* of them whose stored query matches the empty document; with no such
\* synthetic document the metrics are (N, 0, 0).
C11_EmptyDocumentAnyTermOnly ==
    \A m \in Matchers :
        (ReturnedQuiet(m) /\ matcher[m].document = <<>>) =>
            LET flagged == {query_index[i].qid :
                              i \in {j \in DOMAIN query_index : query_index[j].anyterm}}
            IN  /\ matcher[m].total_queries = Cardinality(DOMAIN query_store)
                /\ matcher[m].candidates = flagged
                /\ matcher[m].matches
                      = {id \in flagged : Matches(query_store[id], <<>>)}
                /\ flagged = {} =>
                      matcher[m].candidates = {} /\ matcher[m].matches = {}

\* Two queries are stored, one of them converted to AnyTerm; the call on
\* the empty document returned the id of that one alone.
C11_Witness ==
    \E m \in Matchers :
        /\ ReturnedQuiet(m)
        /\ matcher[m].document = <<>>
        /\ matcher[m].total_queries = 2
        /\ Cardinality(matcher[m].candidates) = 1
        /\ matcher[m].matches = matcher[m].candidates

\* Scores are equal when the fractions they are kept as are.
ScoreEq(x, y) == x.n * y.d = y.n * x.d

\* C17: term selection on a Conjunction adds the terms selected from one
\* child whose score no other child exceeds, and no term of another child.
C17_ConjunctionPicksOne ==
    (p_pc = "selected" /\ p_tree.kind = "Conjunction" /\ p_tree.trees # <<>>) =>
        \E i \in DOMAIN p_tree.trees :
            /\ \A j \in DOMAIN p_tree.trees :
                  ~ScoreLess(score(scorer, p_tree.trees[i]),
                             score(scorer, p_tree.trees[j]))
            /\ p_terms = p_field_terms
                            \cup to_field_terms(scorer, p_tree.trees[i], {})

\* A Conjunction of two terms whose second child scores higher: the second
\* child's term was added and the first child's was not.
C17_Witness ==
    /\ p_pc = "selected"
    /\ p_tree = Conjunction(<<TreeTerm(TermB), TreeTerm(TermA)>>)
    /\ ScoreLess(score(scorer, TreeTerm(TermB)), score(scorer, TreeTerm(TermA)))
    /\ p_field_terms = {}
    /\ p_terms = {TermA}

\* C18: term selection on a Disjunction adds the union of what each child
\* selects on its own.
C18_DisjunctionUnion ==
    (p_pc = "selected" /\ p_tree.kind = "Disjunction") =>
        p_terms = p_field_terms
                     \cup UNION {to_field_terms(scorer, p_tree.trees[i], {}) :
                                   i \in DOMAIN p_tree.trees}

\* A Disjunction of a term and a Conjunction: the term and the term picked
\* from the Conjunction were added to what field_terms held.
C18_Witness ==
    /\ p_pc = "selected"
    /\ p_tree.kind = "Disjunction"
    /\ Len(p_tree.trees) = 2
    /\ p_tree.trees[1] = AnyTerm
    /\ p_tree.trees[2].kind = "Conjunction"
    /\ p_field_terms = {TermB}
    /\ p_terms = {TermB, TermA, Term(ANYTERM_FIELD, "true")}

\* C19: the score of a Disjunction with children is the minimum of its
\* children's scores.
C19_DisjunctionScoreIsMin ==
    (p_pc = "scored" /\ p_tree.kind = "Disjunction" /\ p_tree.trees # <<>>) =>
        /\ \A i \in DOMAIN p_tree.trees :
              ~ScoreLess(score(scorer, p_tree.trees[i]), p_score)
        /\ \E i \in DOMAIN p_tree.trees :
              ScoreEq(score(scorer, p_tree.trees[i]), p_score)

\* C20: the score of a Conjunction with children is the maximum of its
\* children's scores.
C20_ConjunctionScoreIsMax ==
    (p_pc = "scored" /\ p_tree.kind = "Conjunction" /\ p_tree.trees # <<>>) =>
        /\ \A i \in DOMAIN p_tree.trees :
              ~ScoreLess(p_score, score(scorer, p_tree.trees[i]))
        /\ \E i \in DOMAIN p_tree.trees :
              ScoreEq(score(scorer, p_tree.trees[i]), p_score)

\* C21: whatever the document, Phase 1 of match_document yields the id of
\* every synthetic document of its snapshot that carries the any-term flag.
C21_AnyTermAlwaysCandidate ==
    \A m \in Matchers :
        (matcher[m].pc = "searched" \/ matcher[m].returned = "ok") =>
            \A i \in 1..matcher[m].snapshot :
                query_index[i].anyterm => query_index[i].qid \in matcher[m].candidates

\* Phase 1 ran for a document with a token none of the synthetic documents
\* holds: the index holds a flagged synthetic document and one with terms,
\* and the flagged one alone is a candidate.
C21_Witness ==
    \E m \in Matchers :
        /\ matcher[m].pc = "searched"
        /\ matcher[m].document # <<>>
        /\ matcher[m].snapshot = 2
        /\ \E i, j \in 1..2 :
              /\ query_index[i].anyterm
              /\ ~query_index[j].anyterm
              /\ query_index[i].qid # query_index[j].qid
              /\ matcher[m].candidates = {query_index[i].qid}

\* C22: the corpus statistics never decrease.  No step of register_query or
\* match_document lowers token_count, document_count or the frequency of a
\* term, or drops a term from term_frequencies.
C22_StatisticsMonotone ==
    [][/\ scorer'.token_count >= scorer.token_count
       /\ scorer'.document_count >= scorer.document_count
       /\ \A t \in DOMAIN scorer.term_frequencies :
             /\ t \in DOMAIN scorer'.term_frequencies
             /\ scorer'.term_frequencies[t] >= scorer.term_frequencies[t]]_vars

\* Two documents were converted and a registration ran: a term has been
\* counted three times, another once.
C22_Witness ==
    /\ scorer.document_count = 2
    /\ scorer.token_count = 4
    /\ DOMAIN scorer.term_frequencies = {TermA, TermB}
    /\ scorer.term_frequencies[TermB] = 3
    /\ query_index # <<>>

\* C23: the query store is append-only.  No step removes an id from it, and
\* its size never decreases.
C23_StoreAppendOnly ==
    [][/\ DOMAIN query_store \subseteq DOMAIN query_store'
       /\ Cardinality(DOMAIN query_store') >= Cardinality(DOMAIN query_store)]_vars

\* A second id was registered and a match_document call returned: both
\* ids are in the store.
C23_Witness ==
    /\ DOMAIN query_store = Ids
    /\ reg.step = 0
    /\ \E m \in Matchers : matcher[m].returned = "ok" /\ matcher[m].total_queries = 2

\* The synthetic documents of the index the document's candidate-selection
\* query hits.
HitDocs(document) ==
    {i \in DOMAIN query_index :
        search_hit(convert_document_to_query(scorer, document).terms, query_index[i])}

\* C24: in a match_document call with no registration in flight,
\* total_queries is the number of ids in the query store,
\* prospective_queries the number of distinct ids among the synthetic
\* documents Phase 1 hits, and actual_matches the size of the returned set.
C24_MetricsDefinitions ==
    \A m \in Matchers :
        ReturnedQuiet(m) =>
            LET call == matcher[m]
            IN  /\ call.total_queries = Cardinality(DOMAIN query_store)
                /\ prospective_queries(call.candidates)
                      = Cardinality({query_index[i].qid : i \in HitDocs(call.document)})
                /\ actual_matches(call.candidates, call.matches)
                      = Cardinality(call.matches)

\* The document hit three synthetic documents of two ids, and one of the
\* two ids was returned.
C24_Witness ==
    \E m \in Matchers :
        /\ ReturnedQuiet(m)
        /\ Cardinality(HitDocs(matcher[m].document)) = 3
        /\ matcher[m].total_queries = 2
        /\ prospective_queries(matcher[m].candidates) = 2
        /\ actual_matches(matcher[m].candidates, matcher[m].matches) = 1

\* C25: re-registration overwrites without evicting.  No step removes or
\* changes a committed synthetic document, a completed register_query(id, q)
\* leaves the store mapping id to q, and Phase 2 keeps a candidate exactly
\* when the query now stored under it matches the document.
C25_ReRegistrationOverwrites ==
    [][/\ Len(query_index') >= Len(query_index)
       /\ SubSeq(query_index', 1, Len(query_index)) = query_index
       /\ reg'.outcome = "ok" => query_store'[reg'.id] = reg'.query
       /\ \A m \in Matchers :
             (matcher'[m].returned = "ok" /\ matcher'[m].quiet) =>
                 matcher'[m].matches =
                     {id \in matcher'[m].candidates :
                         Matches(query_store'[id], matcher'[m].document)}]_vars

\* Id 0 was registered with the term a and then with the boosted term b:
\* the store holds the second query, both synthetic documents are in the
\* index, and a document with a alone had 0 as a candidate and not as a
\* match.
C25_Witness ==
    /\ reg.outcome = "ok"
    /\ reg.id = 0
    /\ query_store[0] = BoostQuery(QB, 2)
    /\ Len(query_index) = 2
    /\ query_index[1] = [qid |-> 0, terms |-> {TermA}, anyterm |-> FALSE]
    /\ query_index[2] = [qid |-> 0, terms |-> {TermB}, anyterm |-> FALSE]
    /\ \E m \in Matchers :
          /\ ReturnedQuiet(m)
          /\ matcher[m].document = <<StrValue(BODY, <<"a">>)>>
          /\ matcher[m].candidates = {0}
          /\ matcher[m].matches = {}

\* A text or JSON field of the document has no indexing options, names a
\* tokenizer the manager does not know, or holds a value that is not a
\* string.
Unconvertible(document) ==
    \E i \in DOMAIN document :
        /\ document[i].field \in {BODY, TITLE, TAGS, ATTRS}
        /\ \/ document[i].field = TITLE
           \/ document[i].field = TAGS
           \/ document[i].type # "Str"

\* C26: convert_document_to_query fails exactly for the documents with a
\* text or JSON field that has no indexing options, an unknown tokenizer or
\* a non-string value (fields of other types are skipped), and a
\* match_document call whose conversion fails returns the error and no ids.
C26_ConversionErrors ==
    /\ \A document \in MonitorDocuments :
          convert_document_to_query(scorer, document).err <=> Unconvertible(document)
    /\ \A m \in Matchers :
          /\ matcher[m].returned = "err" =>
                /\ Unconvertible(matcher[m].document)
                /\ matcher[m].candidates = {}
                /\ matcher[m].matches = {}
          /\ matcher[m].returned = "ok" => ~Unconvertible(matcher[m].document)

\* A call with a document whose text field names an unregistered tokenizer
\* returned the error while the index held an any-term synthetic document,
\* and the document with a u64 field beside its text converts.
C26_Witness ==
    /\ \E m \in Matchers :
          /\ matcher[m].returned = "err"
          /\ matcher[m].pc = "idle"
          /\ matcher[m].document = <<StrValue(TAGS, <<"a">>)>>
          /\ matcher[m].snapshot > 0
    /\ \E i \in DOMAIN query_index :
          query_index[i].anyterm /\ query_index[i].qid \in DOMAIN query_store
    /\ ~convert_document_to_query(
            scorer, <<StrValue(BODY, <<"b">>), U64Value(NUM, "5")>>).err

\* C27: the precondition of idf always holds.  Every term's document
\* frequency is at most the number of documents, and no register_query call
\* fails the assertion of idf.
C27_IdfPreconditionHolds ==
    /\ \A t \in DOMAIN scorer.term_frequencies :
          idf_asserts(doc_freq(scorer, t), total_num_docs(scorer))
    /\ reg.outcome # "panic"

\* C28: matcher reuse.  When Phase 2 runs, the matcher's ephemeral index
\* holds the call's document and nothing else, whatever earlier calls left
\* in it, and the call returns what a matcher with a fresh ephemeral index
\* returns for the same candidates and store.
C28_MatcherReuse ==
    [][\A m \in Matchers :
          (matcher[m].pc = "searched" /\ matcher'[m].pc = "idle") =>
              /\ matcher'[m].returned = "ok"
              /\ matcher'[m].document_index = <<matcher[m].document>>
              /\ matcher'[m].matches =
                     actual_query_matches(
                         query_store, matcher[m].candidates,
                         add_document(
                             delete_all_documents(MatcherIdle.document_index),
                             matcher[m].document))]_vars

\* The second call on a matcher returned for the document "a" while the
\* statistics hold the term b of the first call's document, and the stored
\* query that matches b alone is not among its matches.
C28_Witness ==
    \E m \in Matchers :
        /\ nmatch = 2
        /\ matcher[m].returned = "ok"
        /\ matcher[m].document = <<StrValue(BODY, <<"a">>)>>
        /\ matcher[m].document_index = << <<StrValue(BODY, <<"a">>)>> >>
        /\ TermB \in DOMAIN scorer.term_frequencies
        /\ 1 \in DOMAIN query_store
        /\ query_store[1] = BoostQuery(QB, 2)
        /\ 0 \in DOMAIN query_store
        /\ matcher[m].candidates = {0}
        /\ matcher[m].matches = {0}

\* C29: scope isolation.  decompose only appends: what the backing vector
\* held before the call is still there, at the same positions and
\* unchanged, whatever the query's Boost or MustNot wrapping rewrites; so
\* is what an earlier sibling appended when the call is nested in an
\* enclosing DisjunctionMax or Boolean, and what the vector held before an
\* enclosing Boost or excluding Boolean.
C29_ScopeIsolation ==
    [][~d_done =>
          LET Kept(after, before) ==
                  /\ Len(after) >= Len(before)
                  /\ SubSeq(after, 1, Len(before)) = before
              sibling == TermQuery(TermA)
              together == DisjunctionMaxQuery(<<sibling, d_query>>)
          IN  /\ Kept(all_subqueries', all_subqueries)
              /\ Kept(decompose(all_subqueries, together),
                      Append(all_subqueries, sibling))
              /\ Kept(decompose(all_subqueries,
                                BooleanQuery(<<Clause(Should, sibling),
                                               Clause(Should, d_query)>>)),
                      Append(all_subqueries, sibling))
              /\ Kept(decompose(all_subqueries, BoostQuery(together, 2)),
                      all_subqueries)
              /\ Kept(decompose(all_subqueries,
                                BooleanQuery(<<Clause(Should, together),
                                               Clause(MustNot, TermQuery(TermB))>>)),
                      all_subqueries)]_vars

\* A Boost of factor 2 around a DisjunctionMax of two terms was decomposed
\* on a backing vector in use: the element the vector held is as it was,
\* and the two it gained are Boosts.
C29_Witness ==
    /\ d_done
    /\ d_query = BoostQuery(DisjunctionMaxQuery(<<TermQuery(TermA), TermQuery(TermB)>>), 2)
    /\ Len(all_subqueries) = 3
    /\ <<all_subqueries[1]>> \in BackingVectors
    /\ all_subqueries[2] = BoostQuery(TermQuery(TermA), 2)
    /\ all_subqueries[3] = BoostQuery(TermQuery(TermB), 2)

\* C30: for a Boost of a factor other than 1.0, decompose appends the list
\* decompose gives for the child with every element s replaced by
\* Boost(s, factor): same length, same order, the Boost's factor on each.
C30_BoostWrapsEach ==
    [][(~d_done /\ d_query.kind = "Boost" /\ d_query.boost # 1)
       => LET inner == decompose(<<>>, d_query.query)
          IN  all_subqueries'
                 = all_subqueries \o
                   [i \in 1..Len(inner) |->
                       [kind |-> "Boost", query |-> inner[i],
                        boost |-> d_query.boost]]]_vars

\* A Boost of factor 2 around a Boolean of two Should terms was decomposed
\* on an empty backing vector: both sub-queries are there, in order, each
\* in a Boost of factor 2.
C30_Witness ==
    /\ d_done
    /\ d_query.kind = "Boost"
    /\ d_query.boost = 2
    /\ d_query.query = BooleanQuery(<<Clause(Should, TermQuery(TermA)),
                                      Clause(Should, TermQuery(TermB))>>)
    /\ all_subqueries = <<BoostQuery(TermQuery(TermA), 2),
                          BoostQuery(TermQuery(TermB), 2)>>

\* The lists decompose gives for the disjuncts from the i-th on, one after
\* the other.
RECURSIVE DisjunctOutputs(_, _)
DisjunctOutputs(disjuncts, i) ==
    IF i > Len(disjuncts) THEN <<>>
    ELSE decompose(<<>>, disjuncts[i]) \o DisjunctOutputs(disjuncts, i + 1)

\* C31: decompose of a DisjunctionMax appends the lists decompose gives for
\* its disjuncts, in the disjuncts' order, which is what decompose appends
\* for the Boolean that has the disjuncts as its Should children.
C31_DisjunctionMaxAsShouldGroup ==
    [][(~d_done /\ d_query.kind = "DisjunctionMax")
       => /\ all_subqueries'
                = all_subqueries \o DisjunctOutputs(d_query.disjuncts, 1)
          /\ all_subqueries'
                = decompose(all_subqueries,
                            BooleanQuery([i \in 1..Len(d_query.disjuncts) |->
                                             Clause(Should, d_query.disjuncts[i])]))]_vars

\* A DisjunctionMax of a Boolean of two Should terms and a Boost of factor
\* 2 was decomposed on a backing vector in use: the vector gained the two
\* terms and then the Boost.
C31_Witness ==
    /\ d_done
    /\ d_query.kind = "DisjunctionMax"
    /\ Len(d_query.disjuncts) = 2
    /\ d_query.disjuncts[1].kind = "Boolean"
    /\ d_query.disjuncts[2] = BoostQuery(TermQuery(TermA), 2)
    /\ Len(all_subqueries) = 4
    /\ <<all_subqueries[1]>> \in BackingVectors
    /\ all_subqueries[2] = TermQuery(TermA)
    /\ all_subqueries[3] = TermQuery(TermB)
    /\ all_subqueries[4] = BoostQuery(TermQuery(TermA), 2)

\* The number of nodes of a query tree.
RECURSIVE Nodes(_)
RECURSIVE NodesFrom(_, _)
Nodes(q) ==
    CASE q.kind = "Boolean" ->
            1 + NodesFrom([i \in 1..Len(q.clauses) |-> q.clauses[i].query], 1)
      [] q.kind = "Boost" -> 1 + Nodes(q.query)
      [] q.kind = "DisjunctionMax" -> 1 + NodesFrom(q.disjuncts, 1)
      [] OTHER -> 1

NodesFrom(qs, i) ==
    IF i > Len(qs) THEN 0 ELSE Nodes(qs[i]) + NodesFrom(qs, i + 1)

C33_RegistrationAllOrNothing ==
    [][(reg'.outcome = "err" /\ reg' # reg)
       => /\ query_index' = query_index
          /\ \/ reg'.again
             \/ ~(/\ reg'.id \in DOMAIN query_store'
                  /\ query_store'[reg'.id] = reg'.query)]_vars

\* The threads that are between the two statements of add_term(t).
InEntry(t) == {th \in Threads : s_pc[th].at = "entry" /\ s_pc[th].term = t}

\* C34: no lost updates.  In every state document_count is the number of
\* add_document_count calls made, token_count the number of add_term calls
\* made, each term's frequency the number of add_term calls for it that
\* have completed (all of them once every thread is idle), and token_count
\* is at least the sum of the frequencies.
C34_NoLostUpdates ==
    /\ scorer.document_count = s_calls.documents
    /\ scorer.token_count = s_calls.terms[TermA] + s_calls.terms[TermB]
    /\ \A t \in StatTerms :
          doc_freq(scorer, t) = s_calls.terms[t] - Cardinality(InEntry(t))
    /\ scorer.token_count >= doc_freq(scorer, TermA) + doc_freq(scorer, TermB)

\* Both threads are between the two statements of add_term for the same
\* term, after one add_term for it and one add_document_count completed.
C34_Witness ==
    /\ InEntry(TermA) = Threads
    /\ doc_freq(scorer, TermA) = 1
    /\ scorer.token_count = 3
    /\ scorer.document_count = 1

\* C35: match_document leaves the query store and the committed query
\* index as they are.  A step of a match_document call changes neither of
\* them, nor the registration in flight, nor another matcher's ephemeral
\* index; of the statistics it changes nothing but in Phase 1, where it
\* counts the document once; and no step that changes the statistics
\* changes a committed synthetic document.
C35_MatchFrame ==
    [][/\ \A m \in Matchers :
             matcher'[m].pc # matcher[m].pc =>
                 /\ query_store' = query_store
                 /\ query_index' = query_index
                 /\ reg' = reg
                 /\ \A n \in Matchers \ {m} :
                       matcher'[n].document_index = matcher[n].document_index
                 /\ IF matcher[m].pc = "opened"
                    THEN scorer'.document_count = scorer.document_count + 1
                    ELSE scorer' = scorer
       /\ scorer' # scorer =>
             /\ query_index' = query_index
             /\ query_store' = query_store]_vars

\* The conjunction of a and b was registered under empty statistics and is
\* indexed under a; a call has returned it for a document since, and under
\* the statistics as they are now it would be indexed under b.
C35_Witness ==
    /\ 0 \in DOMAIN query_store
    /\ query_store[0] = BooleanQuery(<<Clause(Must, QA), Clause(Must, QB)>>)
    /\ query_index = <<[qid |-> 0, terms |-> {TermA}, anyterm |-> FALSE]>>
    /\ convert_query_to_document(scorer, query_store[0]).terms = {TermB}
    /\ \E m \in Matchers :
          /\ matcher[m].returned = "ok"
          /\ matcher[m].matches = {0}

\* C36: a match_document call whose document conversion fails leaves the
\* statistics (document_count, token_count, term_frequencies) exactly as
\* they were before the call.
C36_FailedConversionKeepsStatistics ==
    [][\A m \in Matchers :
          (matcher[m].pc = "opened" /\ matcher'[m].returned = "err")
              => scorer' = scorer]_vars

\* C37: tie-break in term selection.  Of the children of a Conjunction the
\* one selected is the first in the children list among those no other
\* child outscores: no child before it scores as much.  Under empty
\* statistics a conjunction of terms gives its first term.
C37_TieBreakFirst ==
    (p_pc = "selected" /\ p_tree.kind = "Conjunction" /\ p_tree.trees # <<>>) =>
        /\ \E i \in DOMAIN p_tree.trees :
              /\ \A j \in DOMAIN p_tree.trees :
                    ~ScoreLess(score(scorer, p_tree.trees[i]),
                               score(scorer, p_tree.trees[j]))
              /\ \A j \in 1..(i - 1) :
                    ScoreLess(score(scorer, p_tree.trees[j]),
                              score(scorer, p_tree.trees[i]))
              /\ p_terms = p_field_terms
                              \cup to_field_terms(scorer, p_tree.trees[i], {})
        /\ (/\ scorer.document_count = 0
            /\ scorer.term_frequencies = <<>>
            /\ \A j \in DOMAIN p_tree.trees : p_tree.trees[j].kind = "Term")
           => p_terms = p_field_terms \cup {p_tree.trees[1].term}

\* Under empty statistics the Conjunction of b and a, which score the
\* same, gave b, its first child.
C37_Witness ==
    /\ p_pc = "selected"
    /\ p_tree = Conjunction(<<TreeTerm(TermB), TreeTerm(TermA)>>)
    /\ scorer.document_count = 0
    /\ scorer.term_frequencies = <<>>
    /\ ScoreEq(score(scorer, TreeTerm(TermB)), score(scorer, TreeTerm(TermA)))
    /\ p_field_terms = {}
    /\ p_terms = {TermB}

\* C38: List view isolation.  Every view's offset is at most the length of
\* the backing vector, and a view is empty when saved() makes it; the
\* iterator and the index read the elements from the offset on; and no
\* operation through the innermost view touches an element before its
\* offset: map_in_place keeps the length and gives each element from the
\* offset on f of what it was, drain removes one run of elements that lies
\* at or after the offset and yields it, and a read or a panicking drain
\* changes nothing.
C38_ListViewIsolation ==
    /\ [](/\ \A k \in DOMAIN l_offsets :
                /\ l_offsets[k] <= Len(l_items)
                /\ len(l_items, l_offsets[k]) >= 0
                /\ k > 1 => l_offsets[k - 1] <= l_offsets[k]
          /\ l_last.op = "saved" => len(l_items, view_offset) = 0
          /\ l_last.op = "iter" =>
                l_last.result = [i \in 1..(Len(l_items) - view_offset) |->
                                    l_items[view_offset + i]]
          /\ l_last.op = "index" =>
                /\ l_last.result[1] < Len(l_items) - view_offset
                /\ l_last.result[2] = l_items[view_offset + l_last.result[1] + 1])
    /\ [][IF l_offsets' # l_offsets
          THEN l_items' = l_items
          ELSE /\ SubSeq(l_items', 1, view_offset) = SubSeq(l_items, 1, view_offset)
               /\ l_last'.op = "map_in_place" =>
                     /\ Len(l_items') = Len(l_items)
                     /\ \A i \in (view_offset + 1)..Len(l_items) :
                           l_items'[i] = map_f(l_items[i])
               /\ (l_last'.op = "drain" /\ ~l_last'.panicked) =>
                     \E a \in view_offset..Len(l_items) :
                         \E b \in a..Len(l_items) :
                             /\ l_items' = SubSeq(l_items, 1, a)
                                              \o SubSeq(l_items, b + 1, Len(l_items))
                             /\ l_last'.result = SubSeq(l_items, a + 1, b)
               /\ (l_last'.op \in {"iter", "index"} \/ l_last'.panicked) =>
                     l_items' = l_items]_vars

\* A view saved after one push: two elements were pushed through it and
\* mapped, and the first of them was drained; the element before the
\* offset is as it was pushed.
C38_Witness ==
    /\ l_offsets = <<0, 1>>
    /\ l_items = <<0, 2>>
    /\ l_last = Did("drain", <<2>>)

====
